---- MODULE Spec2Model ----
(***************************************************************************)
(* The VE.Direct text-protocol frame decoder of bin/user/vedirect.py       *)
(* (class VEDirect): the byte-driven state machine of VEDirect.input, fed  *)
(* from a serial line.  Strings are sequences of byte codes (ord values).  *)
(***************************************************************************)
EXTENDS Integers, Sequences, FiniteSets, TLC

(* ------------------------------------------------------------------ *)
(* Protocol constants, VEDirect.__init__                               *)
(* ------------------------------------------------------------------ *)
header1 == 13

header2 == 10

hexmarker == 58

delimiter == 9

\* the literal 'Checksum' compared with self.key
Checksum == <<67, 104, 101, 99, 107, 115, 117, 109>>

\* the literal 'ALL' stored in self.start as the frame-boundary flag
ALL == <<65, 76, 76>>

\* (HEX, WAIT_HEADER, IN_KEY, IN_VALUE, IN_CHECKSUM) = range(5)
HEX == 0

WAIT_HEADER == 1

IN_KEY == 2

IN_VALUE == 3

IN_CHECKSUM == 4

States == {HEX, WAIT_HEADER, IN_KEY, IN_VALUE, IN_CHECKSUM}

\* Python's None as a return value; a returned dict d is <<d>>
None == <<>>

\* the empty dict
EmptyDict == [k \in {} |-> <<>>]

\* self.values[k] = v
DictSet(d, k, v) == [x \in (DOMAIN d) \cup {k} |-> IF x = k THEN v ELSE d[x]]

RECURSIVE SumSeq(_)
SumSeq(s) == IF s = <<>> THEN 0 ELSE Head(s) + SumSeq(Tail(s))

(* ------------------------------------------------------------------ *)
(* The decoder object and VEDirect.input as a function of              *)
(* (decoder fields, byte) giving the new fields, the returned value    *)
(* and whether AssertionError was raised.                              *)
(* ------------------------------------------------------------------ *)
NewDecoder ==
    [state |-> WAIT_HEADER, key |-> <<>>, start |-> <<>>, value |-> <<>>,
     bytes_sum |-> 0, values |-> EmptyDict]

\* the instances constructed side by side
Instances == {1, 2}

\* the dict objects: one per instance, one per frame a caller still
\* holds, one to spare
Refs == 1..(2 * Cardinality(Instances) + 1)

\* __init__ with one dict made once for all instances
NewValues_Shared(i) == 1

\* line 213: self.values = {} makes a new dict object at each construction
NewValues(i) == i

\* line 281: self.values = dict() binds self.values to a new object; every
\* other change of the pending map is made in the object itself
Rebinds(d, byte) == d.state = IN_CHECKSUM /\ (d.bytes_sum + byte) % 256 # 0

\* HexMarker without "and self.state != self.IN_CHECKSUM"
HexMarker_Always(d, byte) ==
    IF byte = hexmarker THEN [d EXCEPT !.state = HEX] ELSE d

\* HexMarker that is tested only while waiting for a header
HexMarker_OnlyAtHeader(d, byte) ==
    IF byte = hexmarker /\ d.state = WAIT_HEADER
    THEN [d EXCEPT !.state = HEX]
    ELSE d

\* lines 232-233: the hex marker is tested before the state dispatch
HexMarker(d, byte) ==
    IF byte = hexmarker /\ d.state # IN_CHECKSUM
    THEN [d EXCEPT !.state = HEX]
    ELSE d

\* InWaitHeader that sums only the header bytes
InWaitHeader_SumHeaderOnly(d, byte) ==
    [d |-> [d EXCEPT !.bytes_sum = IF byte \in {header1, header2}
                                   THEN @ + byte ELSE @,
                     !.state = IF byte = header1 THEN WAIT_HEADER
                               ELSE IF byte = header2 THEN IN_KEY
                               ELSE @],
     ret |-> None, raised |-> FALSE]

\* InWaitHeader that takes any byte but a carriage-return for the header
InWaitHeader_AnyByteStartsKey(d, byte) ==
    [d |-> [d EXCEPT !.bytes_sum = @ + byte,
                     !.state = IF byte = header1 THEN WAIT_HEADER
                               ELSE IN_KEY],
     ret |-> None, raised |-> FALSE]

\* lines 234-240
InWaitHeader(d, byte) ==
    [d |-> [d EXCEPT !.bytes_sum = @ + byte,
                     !.state = IF byte = header1 THEN WAIT_HEADER
                               ELSE IF byte = header2 THEN IN_KEY
                               ELSE @],
     ret |-> None, raised |-> FALSE]

\* Anchor without "if self.start == self.key: self.start = 'ALL'"
Anchor_NoBoundary(start, key) ==
    IF start = <<>> THEN key ELSE start

\* lines 244-247: the anchor key and the frame-boundary flag
Anchor(start, key) ==
    IF start = key THEN ALL
    ELSE IF start = <<>> THEN key
    ELSE start

\* InKey with the state after 'Checksum' one past IN_CHECKSUM
InKey_PastChecksum(d, byte) ==
    [d |-> IF byte = delimiter
           THEN [d EXCEPT !.bytes_sum = @ + byte,
                          !.start = Anchor(d.start, d.key),
                          !.state = IF d.key = Checksum THEN IN_CHECKSUM + 1
                                    ELSE IN_VALUE]
           ELSE [d EXCEPT !.bytes_sum = @ + byte,
                          !.key = Append(@, byte)],
     ret |-> None, raised |-> FALSE]

\* InKey that takes 'Checksum' for the name of a field
InKey_ChecksumAsField(d, byte) ==
    [d |-> IF byte = delimiter
           THEN [d EXCEPT !.bytes_sum = @ + byte,
                          !.start = Anchor(d.start, d.key),
                          !.state = IN_VALUE]
           ELSE [d EXCEPT !.bytes_sum = @ + byte,
                          !.key = Append(@, byte)],
     ret |-> None, raised |-> FALSE]

\* lines 241-254
InKey(d, byte) ==
    [d |-> IF byte = delimiter
           THEN [d EXCEPT !.bytes_sum = @ + byte,
                          !.start = Anchor(d.start, d.key),
                          !.state = IF d.key = Checksum THEN IN_CHECKSUM
                                    ELSE IN_VALUE]
           ELSE [d EXCEPT !.bytes_sum = @ + byte,
                          !.key = Append(@, byte)],
     ret |-> None, raised |-> FALSE]

\* InValue that keeps the value stored first for a key
InValue_KeepFirst(d, byte) ==
    [d |-> IF byte = header1
           THEN [d EXCEPT !.bytes_sum = @ + byte,
                          !.state = WAIT_HEADER,
                          !.values = IF d.key \in DOMAIN @ THEN @
                                     ELSE DictSet(@, d.key, d.value),
                          !.key = <<>>,
                          !.value = <<>>]
           ELSE [d EXCEPT !.bytes_sum = @ + byte,
                          !.value = Append(@, byte)],
     ret |-> None, raised |-> FALSE]

\* lines 255-264
InValue(d, byte) ==
    [d |-> IF byte = header1
           THEN [d EXCEPT !.bytes_sum = @ + byte,
                          !.state = WAIT_HEADER,
                          !.values = DictSet(@, d.key, d.value),
                          !.key = <<>>,
                          !.value = <<>>]
           ELSE [d EXCEPT !.bytes_sum = @ + byte,
                          !.value = Append(@, byte)],
     ret |-> None, raised |-> FALSE]

\* InChecksum without the test "if self.start == 'ALL'"
InChecksum_NoBoundaryTest(d, byte) ==
    LET e == [d EXCEPT !.bytes_sum = @ + byte, !.key = <<>>,
                       !.value = <<>>, !.state = WAIT_HEADER]
    IN  IF e.bytes_sum % 256 = 0
        THEN [d |-> [e EXCEPT !.bytes_sum = 0, !.start = <<>>],
              ret |-> <<e.values>>, raised |-> FALSE]
        ELSE [d |-> [e EXCEPT !.bytes_sum = 0, !.start = <<>>,
                              !.values = EmptyDict],
              ret |-> None, raised |-> FALSE]

\* InChecksum without "self.values = dict()" on a failed checksum
InChecksum_KeepOnFailure(d, byte) ==
    LET e == [d EXCEPT !.bytes_sum = @ + byte, !.key = <<>>,
                       !.value = <<>>, !.state = WAIT_HEADER]
    IN  IF e.bytes_sum % 256 = 0
        THEN IF e.start = ALL
             THEN [d |-> [e EXCEPT !.bytes_sum = 0, !.start = <<>>],
                   ret |-> <<e.values>>, raised |-> FALSE]
             ELSE [d |-> [e EXCEPT !.bytes_sum = 0],
                   ret |-> None, raised |-> FALSE]
        ELSE [d |-> [e EXCEPT !.bytes_sum = 0, !.start = <<>>],
              ret |-> None, raised |-> FALSE]

\* InChecksum that drops the anchor at every valid checksum
InChecksum_DropAnchor(d, byte) ==
    LET e == [d EXCEPT !.bytes_sum = @ + byte, !.key = <<>>,
                       !.value = <<>>, !.state = WAIT_HEADER]
    IN  IF e.bytes_sum % 256 = 0
        THEN IF e.start = ALL
             THEN [d |-> [e EXCEPT !.bytes_sum = 0, !.start = <<>>],
                   ret |-> <<e.values>>, raised |-> FALSE]
             ELSE [d |-> [e EXCEPT !.bytes_sum = 0, !.start = <<>>],
                   ret |-> None, raised |-> FALSE]
        ELSE [d |-> [e EXCEPT !.bytes_sum = 0, !.start = <<>>,
                              !.values = EmptyDict],
              ret |-> None, raised |-> FALSE]

\* lines 265-281
InChecksum(d, byte) ==
    LET e == [d EXCEPT !.bytes_sum = @ + byte, !.key = <<>>,
                       !.value = <<>>, !.state = WAIT_HEADER]
    IN  IF e.bytes_sum % 256 = 0
        THEN IF e.start = ALL
             THEN [d |-> [e EXCEPT !.bytes_sum = 0, !.start = <<>>],
                   ret |-> <<e.values>>, raised |-> FALSE]
             ELSE [d |-> [e EXCEPT !.bytes_sum = 0],
                   ret |-> None, raised |-> FALSE]
        ELSE [d |-> [e EXCEPT !.bytes_sum = 0, !.start = <<>>,
                              !.values = EmptyDict],
              ret |-> None, raised |-> FALSE]

\* InHex without "self.bytes_sum = 0"
InHex_KeepSum(d, byte) ==
    [d |-> [d EXCEPT !.state = IF byte = header2 THEN WAIT_HEADER ELSE @],
     ret |-> None, raised |-> FALSE]

\* InHex that takes the line-feed as the header of a field
InHex_ExitToKey(d, byte) ==
    [d |-> [d EXCEPT !.bytes_sum = 0,
                     !.state = IF byte = header2 THEN IN_KEY ELSE @],
     ret |-> None, raised |-> FALSE]

\* lines 282-285
InHex(d, byte) ==
    [d |-> [d EXCEPT !.bytes_sum = 0,
                     !.state = IF byte = header2 THEN WAIT_HEADER ELSE @],
     ret |-> None, raised |-> FALSE]

\* lines 231-287
input(d, byte) ==
    LET e == HexMarker(d, byte)
    IN  CASE e.state = WAIT_HEADER -> InWaitHeader(e, byte)
          [] e.state = IN_KEY      -> InKey(e, byte)
          [] e.state = IN_VALUE    -> InValue(e, byte)
          [] e.state = IN_CHECKSUM -> InChecksum(e, byte)
          [] e.state = HEX         -> InHex(e, byte)
          [] OTHER                 -> [d |-> e, ret |-> None, raised |-> TRUE]

(* ------------------------------------------------------------------ *)
(* VEDirect.get_data: read a byte, feed it to input, until input       *)
(* returns a packet or a read times out                                *)
(* ------------------------------------------------------------------ *)
\* Returns with "if packet:" for "if packet is not None:"
Returns_IfNotEmpty(packet) == packet # None /\ DOMAIN packet[1] # {}

\* lines 294-295: get_data returns what input returned
Returns(packet) == packet # None

(* ------------------------------------------------------------------ *)
(* Bounds of the exploration and the inputs the serial line carries    *)
(* ------------------------------------------------------------------ *)
\* no further field is sent once the running sum exceeds this
MaxSum == 350

\* a transmission is cut short only within its last MaxCut bytes
MaxCut == 2

\* checksum lines of the first cycle sent before its first key recurs
MaxEarly == 1

\* the fields <<name, value>> the device sends: V=1, I=2
Fields == {<< <<86>>, <<49>> >>, << <<73>>, <<50>> >>}

\* a field whose value holds the hex marker: V=:
HexFields == {<< <<86>>, <<58>> >>}

\* a field without a name: =1
NoNameFields == {<< <<>>, <<49>> >>}

\* stray bytes
Noise == {header1, header2, delimiter, hexmarker, 86}

\* bodies of the hex segments the device sends (between ':' and LF)
HexBodies == {<<>>, <<65, 58, 13>>}

\* CR LF key TAB value
FieldBytes(k, v) == <<header1, header2>> \o k \o <<delimiter>> \o v

\* CR LF 'Checksum' TAB
TrailerHead == <<header1, header2>> \o Checksum \o <<delimiter>>

\* the byte that brings a running sum to 0 modulo 256
GoodByte(sum) == (256 - (sum % 256)) % 256

\* ':' body LF
HexBytes(h) == <<hexmarker>> \o h \o <<header2>>

\* the cycle a healthy device repeats: V, V again, Checksum
SteadyCycle ==
    LET f == << <<86>>, <<49>> >>
        body == FieldBytes(f[1], f[2]) \o FieldBytes(f[1], f[2])
                  \o TrailerHead
    IN  Append(body, GoodByte(SumSeq(body)))

HasByte(s, b) == \E i \in 1..Len(s) : s[i] = b

(* ------------------------------------------------------------------ *)
(* State                                                               *)
(* ------------------------------------------------------------------ *)
VARIABLES
    state, key, start, value, bytes_sum, values,  \* the VEDirect fields
    ret,        \* what the last call of input returned
    raised,     \* input raised AssertionError
    ser,        \* bytes on the serial line, not yet read
    disturbed,  \* the line was disturbed since the decoder was last as constructed
    steady,     \* the device only repeats SteadyCycle from now on
    got,        \* a frame was returned since the device went steady
    run,        \* what was sent since the decoder was new, while text only
    open,       \* keys stored since the running sum was last reset
    orphan,     \* keys stored in a group whose sum a hex reset dropped
    atEnd,      \* the last byte read was a checksum byte that validated
    skip,       \* the line carries a hex segment the twin does not get
    twin,       \* a second decoder fed the same bytes but that segment
    pc,         \* "read": a call of get_data is under way, "idle": none is
    packet,     \* what the last call of get_data returned, once it has
    colon,      \* the last byte read was a ':' taken as the checksum byte
    acc,        \* the sum of the bytes read outside hex segments since the
                \* last hex byte or checksum byte
    inst,       \* the instances side by side; inst[i].values is a reference
    heap,       \* the content of each dict object
    out,        \* what the last call of input on each instance returned
    held,       \* the frame last returned by each instance: the object
                \* returned and its content when it was returned
    line        \* the bytes not yet fed to each instance

vars == <<state, key, start, value, bytes_sum, values, ret, raised, ser,
          disturbed, steady, got, run, open, orphan, atEnd, skip, twin,
          pc, packet, colon, acc, inst, heap, out, held, line>>

caller == <<pc, packet>>

pair == <<inst, heap, out, held, line>>

single == <<state, key, start, value, bytes_sum, values, ret, raised, ser,
            disturbed, steady, got, run, open, orphan, atEnd, skip, twin,
            pc, packet, colon, acc>>

decoder == <<state, key, start, value, bytes_sum, values>>

ghosts == <<open, orphan, atEnd, twin, got, colon, acc>>

\* the fields of self as a record
Self ==
    [state |-> state, key |-> key, start |-> start, value |-> value,
     bytes_sum |-> bytes_sum, values |-> values]

\* run: ok    - only whole fields and good checksum lines were sent
\*      after - since a failed checksum rather than since construction
\*      first - the first key sent, rec - it was sent again
\*      early - good checksum lines sent before rec
\*      done  - a good checksum line was sent after rec
\*      plain - no value sent holds the hex marker
\*      map   - each key sent with the value last sent for it
\*      split - a read timed out after the first field was sent
NewRun ==
    [ok |-> TRUE, after |-> FALSE, first |-> <<>>, rec |-> FALSE, early |-> 0,
     done |-> FALSE, plain |-> TRUE, map |-> EmptyDict, split |-> FALSE]

Dirty == [NewRun EXCEPT !.ok = FALSE]

Init ==
    /\ state = NewDecoder.state
    /\ key = NewDecoder.key
    /\ start = NewDecoder.start
    /\ value = NewDecoder.value
    /\ bytes_sum = NewDecoder.bytes_sum
    /\ values = NewDecoder.values
    /\ ret = None
    /\ raised = FALSE
    /\ ser = <<>>
    /\ disturbed = FALSE
    /\ steady = FALSE
    /\ got = FALSE
    /\ run = NewRun
    /\ open = {}
    /\ orphan = {}
    /\ atEnd = FALSE
    /\ skip = FALSE
    /\ twin = [d |-> NewDecoder, ret |-> None]
    /\ pc = "idle"
    /\ packet = None
    /\ colon = FALSE
    /\ acc = 0
    /\ inst = [i \in Instances |-> [NewDecoder EXCEPT !.values = NewValues(i)]]
    /\ heap = [x \in Refs |-> EmptyDict]
    /\ out = [i \in Instances |-> None]
    /\ held = [i \in Instances |-> None]
    /\ line = [i \in Instances |-> <<>>]

(* ------------------------------------------------------------------ *)
(* get_data is called, reads one byte off the line and feeds it to     *)
(* input, or gets no byte                                              *)
(* ------------------------------------------------------------------ *)
\* data = self._ved.get_data()
GetData ==
    /\ pc = "idle"
    /\ ~raised
    /\ pc' = "read"
    /\ packet' = None
    /\ UNCHANGED <<decoder, pair, ret, raised, ser, disturbed, steady, run, skip,
                   ghosts>>

\* byte = self.ser.read(1) timed out: byte is empty, get_data breaks out
\* of its loop and returns None
NoByte ==
    /\ pc = "read"
    /\ ser = <<>>
    /\ pc' = "idle"
    /\ packet' = None
    /\ run' = IF run.ok /\ run.first # <<>> /\ ~run.done
              THEN [run EXCEPT !.split = TRUE]
              ELSE run
    /\ UNCHANGED <<decoder, pair, ret, raised, ser, disturbed, steady, skip,
                   ghosts>>

\* byte = self.ser.read(1); packet = self.input(byte)
Input ==
    /\ pc = "read"
    /\ ser # <<>>
    /\ ~raised
    /\ LET byte   == Head(ser)
           r      == input(Self, byte)
           hexed  == (byte = hexmarker /\ state # IN_CHECKSUM) \/ state = HEX
           stored == ~hexed /\ state = IN_VALUE /\ byte = header1
           chk    == state = IN_CHECKSUM
           ok     == (bytes_sum + byte) % 256 = 0
           t      == input(twin.d, byte)
       IN  /\ state' = r.d.state
           /\ key' = r.d.key
           /\ start' = r.d.start
           /\ value' = r.d.value
           /\ bytes_sum' = r.d.bytes_sum
           /\ values' = r.d.values
           /\ ret' = r.ret
           /\ raised' = r.raised
           /\ ser' = Tail(ser)
           /\ pc' = IF Returns(r.ret) THEN "idle" ELSE "read"
           /\ packet' = IF Returns(r.ret) THEN r.ret ELSE packet
           /\ got' = (got \/ (steady /\ r.ret # None))
           /\ open' = IF hexed \/ chk THEN {}
                      ELSE IF stored THEN open \cup {key}
                      ELSE open
           /\ orphan' = IF hexed THEN orphan \cup open
                        ELSE IF stored THEN orphan \ {key}
                        ELSE IF chk /\ ~ok THEN {}
                        ELSE orphan
           /\ atEnd' = (chk /\ ok)
           /\ colon' = (chk /\ byte = hexmarker)
           /\ acc' = IF hexed \/ chk THEN 0 ELSE acc + byte
           /\ twin' = IF skip THEN twin ELSE [d |-> t.d, ret |-> t.ret]
           /\ skip' = (skip /\ Tail(ser) # <<>>)
           /\ disturbed' = (disturbed /\ r.d # NewDecoder)
           /\ run' = IF chk /\ ~ok /\ Tail(ser) = <<>> /\ ~steady
                     THEN [NewRun EXCEPT !.after = TRUE]
                     ELSE run
    /\ UNCHANGED <<steady, pair>>

(* ------------------------------------------------------------------ *)
(* The device and the line                                             *)
(* ------------------------------------------------------------------ *)
CanSend == ser = <<>> /\ ~steady /\ ~raised

\* a field that is not a name and a value free of the hex marker
Odd(f) == HasByte(f[2], hexmarker) \/ f[1] = <<>>

\* one field; an odd one is a disturbance
SendField(f) ==
    /\ CanSend
    /\ bytes_sum <= MaxSum
    /\ Odd(f) => ~disturbed
    /\ disturbed' = (disturbed \/ Odd(f))
    /\ ser' = FieldBytes(f[1], f[2])
    /\ run' = IF run.ok /\ ~run.done /\ f[1] # <<>>
              THEN [run EXCEPT !.first = IF @ = <<>> THEN f[1] ELSE @,
                               !.rec = @ \/ f[1] = run.first,
                               !.plain = @ /\ ~HasByte(f[2], hexmarker),
                               !.map = DictSet(@, f[1], f[2])]
              ELSE Dirty
    /\ UNCHANGED <<decoder, caller, pair, ret, raised, steady, skip, ghosts>>

\* the checksum line; its last byte zeroes the decoder's running sum
\* (good) or misses it by one
SendChecksum(good) ==
    /\ CanSend
    /\ LET x == GoodByte(bytes_sum + SumSeq(TrailerHead))
       IN  ser' = Append(TrailerHead, IF good THEN x ELSE (x + 1) % 256)
    /\ run' = IF run.ok /\ ~run.done /\ good /\ run.first # <<>>
                 /\ (run.rec \/ run.early < MaxEarly)
              THEN IF run.rec THEN [run EXCEPT !.done = TRUE]
                   ELSE [run EXCEPT !.early = @ + 1]
              ELSE Dirty
    /\ UNCHANGED <<decoder, caller, pair, ret, raised, disturbed, steady, skip, ghosts>>

\* a hex segment; one that directly follows a validated checksum byte
\* is withheld from the twin, any other is a disturbance
SendHex(h) ==
    /\ CanSend
    /\ ~atEnd => ~disturbed
    /\ disturbed' = (disturbed \/ ~atEnd)
    /\ ser' = HexBytes(h)
    /\ skip' = atEnd
    /\ run' = Dirty
    /\ UNCHANGED <<decoder, caller, pair, ret, raised, steady, ghosts>>

\* line noise: a stray byte between two transmissions, or in place of
\* the checksum byte of a transmission cut short
Inject(b) ==
    /\ CanSend
    /\ ~disturbed \/ state = IN_CHECKSUM
    /\ ser' = <<b>>
    /\ disturbed' = TRUE
    /\ run' = Dirty
    /\ UNCHANGED <<decoder, caller, pair, ret, raised, steady, skip, ghosts>>

\* line noise: the rest of the transmission under way is lost
Cut ==
    /\ ~steady /\ ~raised /\ ~skip
    /\ ~disturbed
    /\ ser # <<>> /\ Len(ser) <= MaxCut
    /\ ser' = <<>>
    /\ disturbed' = TRUE
    /\ run' = Dirty
    /\ UNCHANGED <<decoder, caller, pair, ret, raised, steady, skip, ghosts>>

\* from now on the device repeats the same well-formed cycle
GoSteady ==
    /\ CanSend
    /\ steady' = TRUE
    /\ run' = Dirty
    /\ UNCHANGED <<decoder, caller, pair, ret, raised, ser, disturbed, skip, ghosts>>

\* the next cycle is on the line when at most the checksum byte of the
\* last one is still unread
SteadySend ==
    /\ steady /\ Len(ser) <= 1 /\ ~raised
    /\ ser' = ser \o SteadyCycle
    /\ UNCHANGED <<decoder, caller, pair, ret, raised, disturbed, steady, run, skip, ghosts>>

Next ==
    \/ GetData
    \/ NoByte
    \/ Input
    \/ \E f \in Fields \cup HexFields \cup NoNameFields : SendField(f)
    \/ \E good \in BOOLEAN : SendChecksum(good)
    \/ \E h \in HexBodies : SendHex(h)
    \/ \E b \in Noise : Inject(b)
    \/ Cut
    \/ GoSteady
    \/ SteadySend

Spec == Init /\ [][Next]_vars

\* the driver keeps calling get_data, get_data keeps reading and the
\* steady device keeps sending
LiveSpec ==
    /\ Init /\ [][Next]_vars
    /\ WF_vars(GetData) /\ WF_vars(Input) /\ WF_vars(SteadySend)

(* ------------------------------------------------------------------ *)
(* Two instances fed the same bytes, each at its own pace              *)
(* ------------------------------------------------------------------ *)
\* instance i with the content of its dict in place of the reference
View(i) == [inst[i] EXCEPT !.values = heap[@]]

\* a dict object no instance and no caller refers to
Fresh ==
    CHOOSE x \in Refs :
        /\ \A j \in Instances : inst[j].values # x
        /\ \A j \in Instances : held[j] # None => held[j][1].ref # x

\* the same transmission reaches both instances
PairSend(t) ==
    /\ \A i \in Instances : line[i] = <<>>
    /\ line' = [i \in Instances |-> t]
    /\ UNCHANGED <<single, inst, heap, out, held>>

PairField(f) ==
    /\ inst[1].bytes_sum <= MaxSum
    /\ PairSend(FieldBytes(f[1], f[2]))

PairChecksum(good) ==
    LET x == GoodByte(inst[1].bytes_sum + SumSeq(TrailerHead))
    IN  PairSend(Append(TrailerHead, IF good THEN x ELSE (x + 1) % 256))

\* a hex segment between two cycles
PairHex ==
    /\ inst[1].key = <<>>
    /\ PairSend(HexBytes(<<>>))

\* the references of instances in and frames fr, in a fixed order
RefSeq(in, fr) ==
    LET n == Cardinality(Instances)
    IN  [k \in 1..(2 * n) |->
            IF k <= n THEN in[k].values
            ELSE IF fr[k - n] # None THEN fr[k - n][1].ref
            ELSE in[k - n].values]

\* objects have no names: reference x is renamed to its rank in RefSeq
Rank(in, fr, x) ==
    LET q == RefSeq(in, fr)
        first == CHOOSE k \in DOMAIN q :
                    q[k] = x /\ \A m \in 1..(k - 1) : q[m] # x
    IN  Cardinality({q[m] : m \in 1..first})

\* instance i is fed its next byte: self.input(byte); a transmission is
\* fed to one instance after the other
PairInput(i) ==
    /\ line[i] # <<>>
    /\ \A j \in Instances : j < i => line[j] = <<>>
    /\ LET byte  == Head(line[i])
           r     == input(View(i), byte)
           ref   == IF Rebinds(View(i), byte) THEN Fresh ELSE inst[i].values
           inst2 == [inst EXCEPT ![i] = [r.d EXCEPT !.values = ref]]
           held2 == IF r.ret # None
                    THEN [held EXCEPT ![i] =
                            <<[ref |-> inst[i].values, snap |-> r.ret[1]]>>]
                    ELSE held
           heap2 == [heap EXCEPT ![ref] = r.d.values]
           live  == {q \in Refs : \E k \in DOMAIN RefSeq(inst2, held2) :
                                     RefSeq(inst2, held2)[k] = q}
           new(x) == Rank(inst2, held2, x)
       IN  /\ inst' = [j \in Instances |->
                          [inst2[j] EXCEPT !.values = new(@)]]
           /\ held' = [j \in Instances |->
                          IF held2[j] = None THEN None
                          ELSE <<[held2[j][1] EXCEPT !.ref = new(@)]>>]
           /\ heap' = [x \in Refs |->
                          IF \E q \in live : new(q) = x
                          THEN heap2[CHOOSE q \in live : new(q) = x]
                          ELSE EmptyDict]
           /\ out' = [out EXCEPT ![i] = r.ret]
           /\ line' = [line EXCEPT ![i] = Tail(@)]
    /\ UNCHANGED single

PairNext ==
    \/ \E f \in Fields : PairField(f)
    \/ \E good \in BOOLEAN : PairChecksum(good)
    \/ PairHex
    \/ \E i \in Instances : PairInput(i)

PairSpec == Init /\ [][PairNext]_vars

(* ------------------------------------------------------------------ *)
(* Properties                                                          *)
(* ------------------------------------------------------------------ *)
\* the byte the next call of input consumes makes the sum 0 modulo 256
SumOk == ser # <<>> /\ (bytes_sum + Head(ser)) % 256 = 0

\* the byte the next call of input consumes is handled as hex
Hexed ==
    ser # <<>> /\ ((Head(ser) = hexmarker /\ state # IN_CHECKSUM) \/ state = HEX)

\* the text sent so far is one cycle under way: no checksum line before
\* the first key recurred
OneCycle == run.ok /\ run.early = 0

\* the last byte of the closing checksum line has just been read
Closed == run.done /\ ser = <<>>

\* C1: input returns a frame only when the byte is consumed in
\* IN_CHECKSUM, the running sum including it is 0 modulo 256 and the
\* frame-boundary flag is set; every other call returns nothing.
C1_FrameOnlyOnValidChecksum ==
    [][Input /\ ret' # None =>
          state = IN_CHECKSUM /\ SumOk /\ start = ALL]_vars

C1_Witness == ret # None /\ atEnd /\ DOMAIN ret[1] # {}

\* C2 (as claimed): a well-formed cycle fed to a new decoder returns
\* nothing on every byte but the last and on the last byte the frame of
\* the fields fed, whatever the values hold.
C2_Original ==
    (OneCycle /\ ~run.after) =>
        IF Closed THEN ret = <<run.map>> ELSE ret = None

\* C2 (amended): the same for cycles whose values are free of the hex
\* marker.
C2_CycleDecoded ==
    (OneCycle /\ ~run.after /\ run.plain) =>
        IF Closed THEN ret = <<run.map>> ELSE ret = None

C2_Witness ==
    /\ OneCycle /\ ~run.after /\ run.plain /\ Closed
    /\ Cardinality(DOMAIN run.map) = 2
    /\ ret = <<run.map>>

\* C3: a checksum byte that leaves the sum nonzero modulo 256 makes
\* input return nothing and leaves the decoder as constructed; a
\* well-formed cycle fed right afterwards is decoded as on a new decoder.
C3_FailureResets ==
    [][ /\ (Input /\ state = IN_CHECKSUM /\ ~SumOk) =>
              (ret' = None /\ Self' = NewDecoder)
        /\ (OneCycle /\ run.after /\ run.plain =>
              IF Closed THEN ret = <<run.map>> ELSE ret = None)' ]_vars

C3_Witness ==
    /\ OneCycle /\ run.after /\ run.plain /\ Closed
    /\ Cardinality(DOMAIN run.map) = 2
    /\ ret = <<run.map>>

\* C4: right after input returns a frame the accumulator is reset: the
\* buffers, the anchor and the sum are clear and the pending map is empty.
C4_ResetOnReturn ==
    ret # None =>
        /\ key = <<>> /\ value = <<>> /\ start = <<>> /\ bytes_sum = 0
        /\ values = EmptyDict

\* C5: no pair of a returned frame was stored in a group whose running
\* sum was dropped by a hex reset before a checksum validated it.
C5_OnlyValidatedPairs == ret # None => (DOMAIN ret[1]) \cap orphan = {}

\* C6: once the stream continues with the same well-formed cycle over
\* and over, input eventually returns a frame.
C6_NeverWedges == steady ~> got

\* C7: a checksum byte that validates while the frame-boundary flag is
\* not set makes input return nothing and leaves the pending map and the
\* anchor as they were; the pairs are part of the frame returned at a
\* later checksum line, once the anchor key has recurred.
C7_PartialCycleKept ==
    [][ /\ (Input /\ state = IN_CHECKSUM /\ SumOk /\ start # ALL) =>
              (ret' = None /\ values' = values /\ start' = start)
        /\ (run.ok /\ run.early > 0 /\ run.plain /\ Closed =>
              ret = <<run.map>>)' ]_vars

C7_Witness ==
    /\ run.ok /\ run.early > 0 /\ run.plain /\ Closed
    /\ Cardinality(DOMAIN run.map) = 2
    /\ ret = <<run.map>>

\* C8: a byte handled as hex leaves the key buffer, the value buffer, the
\* anchor and the pending map unchanged, returns nothing and leaves the
\* sum at 0; HEX is left only on a line-feed, for WAIT_HEADER.
C8_HexLeavesAccumulator ==
    [][(Input /\ Hexed) =>
          /\ UNCHANGED <<key, value, start, values>>
          /\ ret' = None
          /\ bytes_sum' = 0
          /\ \/ state' = HEX
             \/ state = HEX /\ Head(ser) = header2 /\ state' = WAIT_HEADER]_vars

C8_Witness ==
    /\ state = WAIT_HEADER /\ bytes_sum = 0 /\ disturbed /\ ~steady
    /\ ser = <<>> /\ key # <<>> /\ value # <<>> /\ values # EmptyDict

\* C9: a hex segment fed right after a validated checksum byte changes
\* nothing: the decoder that got it and the twin that did not are in the
\* same state afterwards and return the same on every later text byte.
C9_HexBetweenFrames ==
    [][ /\ (~skip => Self = twin.d)'
        /\ (Input /\ ~skip => ret' = twin'.ret) ]_vars

C9_Witness ==
    /\ ~skip /\ ser = <<>> /\ ret = None /\ twin.ret # None
    /\ Self = twin.d /\ DOMAIN values # {}

\* C10: input never raises: the state is always one of the five.
C10_NeverRaises == state \in States /\ ~raised

C10_Witness == state = HEX /\ disturbed /\ values # EmptyDict

\* C11: 'Checksum' is never a key of the pending map nor of a returned
\* frame, whatever was fed, hex segments included.
C11_ChecksumNeverAKey ==
    /\ Checksum \notin DOMAIN values
    /\ ret # None => Checksum \notin DOMAIN ret[1]

C11_Witness == ret # None /\ orphan # {} /\ DOMAIN ret[1] # {}

\* C12: get_data feeds the bytes read to input one at a time and in order;
\* it returns the first frame input returns and reads no byte after it;
\* it returns nothing as soon as a read yields no byte; the decoder is
\* kept between calls, so a cycle whose bytes are split across calls is
\* returned by the call that reads its last byte.
C12_GetData ==
    [][ /\ Input =>
              /\ pc = "read"
              /\ Self' = input(Self, Head(ser)).d
              /\ ser' = Tail(ser)
              /\ IF ret' # None THEN pc' = "idle" /\ packet' = ret'
                 ELSE pc' = "read"
        /\ pc = "idle" => UNCHANGED <<decoder, ret>>
        /\ NoByte => pc' = "idle" /\ packet' = None /\ UNCHANGED decoder
        /\ GetData => UNCHANGED decoder
        /\ (Input /\ (OneCycle /\ run.plain /\ Closed)') =>
              (pc = "idle" /\ packet = <<run.map>>)' ]_vars

C12_Witness ==
    /\ pc = "idle" /\ packet = <<run.map>>
    /\ OneCycle /\ run.plain /\ Closed /\ run.split
    /\ Cardinality(DOMAIN run.map) = 2

\* C13: two instances fed the same bytes are in the same state and have
\* returned the same whenever they have been fed equally many; feeding one
\* changes neither the state nor the last result of the other.
C13_Independent ==
    [][ /\ \A i \in Instances : \A j \in Instances \ {i} :
              PairInput(i) => View(j)' = View(j) /\ out'[j] = out[j]
        /\ (Len(line[1]) = Len(line[2]) =>
              View(1) = View(2) /\ out[1] = out[2])' ]_vars

C13_Witness ==
    /\ line[1] = <<>> /\ line[2] = <<>>
    /\ out[1] # None /\ out[1] = out[2]
    /\ Cardinality(DOMAIN out[1][1]) = 2

\* C20: a frame returned by input is not modified by later calls of input
\* on the same decoder: what the caller holds stays as it was returned.
C20_FrameKept ==
    \A i \in Instances :
        held[i] # None => heap[held[i][1].ref] = held[i][1].snap

\* C14: the frame-boundary flag becomes set only when a TAB completes a
\* key equal to an anchor recorded by an earlier TAB; with no anchor
\* recorded, the TAB records the key, the empty key too, and does not set
\* the flag.
C14_FlagOnlyOnRecurrence ==
    [][(Input /\ ~Hexed /\ state = IN_KEY /\ Head(ser) = delimiter) =>
          /\ (start' = ALL /\ start # ALL) => (start # <<>> /\ key = start)
          /\ start = <<>> => (start' = key /\ start' # ALL)]_vars

\* C15: a byte consumed in WAIT_HEADER, IN_KEY or IN_VALUE adds its value
\* to the running sum and a byte handled as hex leaves the sum at 0, so
\* the sum is that of the bytes read outside hex segments since it was
\* last reset; the checksum byte is added before the test: the test
\* succeeds exactly when that sum with the checksum byte is 0 modulo 256.
C15_SumCoversTextBytes ==
    [][ /\ (Input /\ ~Hexed /\ state # IN_CHECKSUM) =>
              bytes_sum' = bytes_sum + Head(ser)
        /\ (Input /\ Hexed) => bytes_sum' = 0
        /\ (Input /\ state = IN_CHECKSUM) =>
              /\ ret' # None => (acc + Head(ser)) % 256 = 0
              /\ ((acc + Head(ser)) % 256 = 0 /\ start = ALL) => ret' # None
              /\ (acc + Head(ser)) % 256 # 0 => Self' = NewDecoder
        /\ (bytes_sum = acc)' ]_vars

C15_Witness ==
    /\ atEnd /\ disturbed /\ ret = None /\ values # EmptyDict /\ acc = 0

\* C16: IN_CHECKSUM consumes one byte whatever it is: a ':' met there is
\* the checksum byte and does not enter HEX; after that byte the state is
\* WAIT_HEADER and the key and value buffers are empty, whether the sum
\* validated or not.
C16_ChecksumTakesOneByte ==
    [][(Input /\ state = IN_CHECKSUM) =>
          /\ state' = WAIT_HEADER /\ key' = <<>> /\ value' = <<>>
          /\ bytes_sum' = 0]_vars

C16_Witness ==
    /\ colon /\ state = WAIT_HEADER /\ key = <<>> /\ value = <<>>

\* C17: in IN_VALUE a carriage-return maps the key to the value in the
\* pending map, in place of a value stored earlier for it, clears both
\* buffers and moves to WAIT_HEADER; any other byte but ':' is appended to
\* the value and changes nothing else but the sum.
C17_ValueStored ==
    [][ /\ (Input /\ ~Hexed /\ state = IN_VALUE /\ Head(ser) = header1) =>
              /\ DOMAIN values' = DOMAIN values \cup {key}
              /\ values'[key] = value
              /\ \A k \in DOMAIN values \ {key} : values'[k] = values[k]
              /\ key' = <<>> /\ value' = <<>> /\ state' = WAIT_HEADER
              /\ start' = start /\ ret' = None
        /\ (Input /\ ~Hexed /\ state = IN_VALUE /\ Head(ser) # header1) =>
              /\ value' = Append(value, Head(ser))
              /\ UNCHANGED <<state, key, start, values>>
              /\ ret' = None ]_vars

C17_Witness ==
    /\ state = WAIT_HEADER /\ key = <<>> /\ value = <<>> /\ bytes_sum > 0
    /\ Cardinality(DOMAIN values) = 2
    /\ <<86>> \in DOMAIN values /\ values[<<86>>] = <<>>

\* C18: in WAIT_HEADER a line-feed moves to IN_KEY, a carriage-return and
\* any other byte but ':' keep WAIT_HEADER; the buffers, the anchor and the
\* pending map are unchanged and input returns nothing.
C18_WaitHeader ==
    [][(Input /\ ~Hexed /\ state = WAIT_HEADER) =>
          /\ state' = IF Head(ser) = header2 THEN IN_KEY ELSE WAIT_HEADER
          /\ UNCHANGED <<key, value, start, values>>
          /\ ret' = None]_vars

C18_Witness ==
    /\ state = WAIT_HEADER /\ bytes_sum = 86 /\ disturbed /\ ser = <<>>

\* C19: the key buffer, the value buffer, the anchor and the keys and
\* values of the pending map hold no ':'; no key holds a TAB and no value
\* a carriage-return.
C19_NoMarkerStored ==
    /\ ~HasByte(key, hexmarker) /\ ~HasByte(key, delimiter)
    /\ ~HasByte(value, hexmarker) /\ ~HasByte(value, header1)
    /\ ~HasByte(start, hexmarker)
    /\ \A k \in DOMAIN values :
          /\ ~HasByte(k, hexmarker) /\ ~HasByte(k, delimiter)
          /\ ~HasByte(values[k], hexmarker) /\ ~HasByte(values[k], header1)

C19_Witness == state = HEX /\ key # <<>> /\ value # <<>> /\ ser # <<>>

====
